---------------------------- MODULE Spec2Model ----------------------------
(***************************************************************************)
(* Gleipnir: the DNest4 nested sampler wrapper (gleipnir/dnest4.py) and    *)
(* the multi-model selector built on it                                    *)
(* (gleipnir/pysb_utilities/hyp_selector.py).                              *)
(*                                                                         *)
(* Four specifications share the module:                                   *)
(*   SpecSampler   one DNest4NestedSampling instance and its public API    *)
(*   Spec          one HypSelector and the samplers it owns                *)
(*   SpecPerturb   one _DNest4Model and a live point moved by perturb      *)
(*   SpecBatch     HypSelector.run_nested_sampling, statement by statement *)
(*                                                                         *)
(* Numbers.  Log-evidences are integers.  exp() is modelled to the base 2  *)
(* on exact rationals [num, den] in lowest terms, so exp(a)*exp(b) is      *)
(* exp(a+b) and exp(0) is 1 as for the real exponential; sqrt() is exact   *)
(* on the rationals that have a rational root, and the informations drawn  *)
(* as inputs are such numbers.                                             *)
(***************************************************************************)
EXTENDS Integers, Sequences, FiniteSets, TLC

VARIABLES
    ns,               \* SpecSampler: the DNest4NestedSampling instance
    hist_evals,       \* SpecSampler: number of times posteriors() built
                      \*   its histograms (lines 251-263 executed)
    prev_posteriors,  \* SpecSampler: whether the call made before the
                      \*   last one was a posteriors() that returned
    model_files,      \* Spec: HypSelector._model_files (their number)
    models,           \* Spec: HypSelector.models
    nested_samplers,  \* Spec: HypSelector.nested_samplers
    selection,        \* Spec: HypSelector.selection
    nested_sample_its,\* Spec: HypSelector._nested_sample_its
    pc,               \* SpecBatch: where run_nested_sampling stands
    loop_i,           \* SpecBatch: the position the running loop is at
    running,          \* SpecBatch: the samplers whose run() is executing
    started,          \* SpecBatch: the samplers whose run() was called in
                      \*   this call, in the order of the calls
    run_done,         \* SpecBatch: the samplers whose run() has returned
                      \*   in this call
    frame_rows,       \* SpecBatch: the list of rows, frame
    dnest4_model,     \* SpecPerturb: the _DNest4Model (_widths, _centers)
    coords,           \* SpecPerturb: the coordinate vector of a live point
    last              \* the last call made by the user and how it ended

vars == <<ns, hist_evals, prev_posteriors, model_files, models, nested_samplers, selection,
          nested_sample_its, pc, loop_i, running, started, run_done, frame_rows,
          dnest4_model, coords, last>>

samplerVars  == <<ns, hist_evals, prev_posteriors>>
selectorVars == <<model_files, models, nested_samplers, selection,
                  nested_sample_its>>
batchVars    == <<pc, loop_i, running, started, run_done, frame_rows>>
perturbVars  == <<dnest4_model, coords>>

---------------------------------------------------------------------------
(* Bounds of the model.                                                    *)

\* log_Z of a finished run lies in -MaxLogZ .. MaxLogZ
MaxLogZ == 1
\* the selector has 1 .. MaxModels model files
MaxModels == 2
\* posteriors() builds its histograms at most MaxEvals times
MaxEvals == 2
\* a prior draws the values 0, 2, .. , 2*MaxCoord
MaxCoord == 3

---------------------------------------------------------------------------
(* Python values.  An attribute that was never assigned is Unset (reading  *)
(* it raises AttributeError); None is Python's None.                       *)

Unset == [tag |-> "unset"]
None == [tag |-> "None"]
Val(v) == [tag |-> "val", v |-> v]

\* How a call ends.
Return(v) == [kind |-> "return", value |-> v]
Raise(e) == [kind |-> "raise", exc |-> e]

Range(f) == {f[x] : x \in DOMAIN f}

Max(S) == CHOOSE x \in S : \A y \in S : y <= x
Min(S) == CHOOSE x \in S : \A y \in S : x <= y

---------------------------------------------------------------------------
(* Exact arithmetic.                                                       *)

RECURSIVE Pow2(_)
Pow2(n) == IF n = 0 THEN 1 ELSE 2 * Pow2(n - 1)

RECURSIVE Gcd(_, _)
Gcd(a, b) == IF b = 0 THEN a ELSE Gcd(b, a % b)

Abs(x) == IF x < 0 THEN -x ELSE x

\* The rational n/d (d > 0) in lowest terms.
Rat(n, d) ==
    LET g == Gcd(Abs(n), d)
    IN  IF n = 0 THEN [num |-> 0, den |-> 1]
        ELSE [num |-> n \div g, den |-> d \div g]

RatMul(p, q) == Rat(p.num * q.num, p.den * q.den)
RatAdd(p, q) == Rat(p.num * q.den + q.num * p.den, p.den * q.den)
RatSub(p, q) == Rat(p.num * q.den - q.num * p.den, p.den * q.den)
RatOne == Rat(1, 1)

\* np.exp on an integer argument.
Exp(x) == IF x >= 0 THEN Rat(Pow2(x), 1) ELSE Rat(1, Pow2(-x))

\* np.log on a power of two, to the base 2 as Exp.
Log(n) == CHOOSE k \in 0..n : Pow2(k) = n

\* The integer r with r*r = n when n is a perfect square.
ISqrt(n) == CHOOSE r \in 0..n : r * r = n

\* np.sqrt(num/den) for a num/den with an integer root.
Sqrt(num, den) == ISqrt(num \div den)

\* int(np.cbrt(n)): the integer part of the cube root.
ICbrt(n) == Max({r \in 0..n : r * r * r <= n})

---------------------------------------------------------------------------
(* What one DNest4 run hands back to DNest4NestedSampling.run: the         *)
(* postprocess statistics and the backend's stores.                        *)

\* 25*self._n_dims, the default population size
DefaultPopFactor == 25
\* ns_population_size, the selector's default population size
NsPopulationSize == 1000

ParamNames == <<"p0", "p1">>
SampleValues == 0..1
SampleSizes == {1, 4}

LogZs == -MaxLogZ..MaxLogZ

\* The stats['H'] that comes with a stats['log_Z']: one value for each
\* log_Z, each with an integer root of H/population_size.
Information(log_Z, pop) == (log_Z + MaxLogZ) * (log_Z + MaxLogZ) * pop

\* A row of posterior samples: one value per parameter, the values of
\* neighbouring parameters differing.
SampleRow(d, v) == [i \in 1..d |-> (v + i - 1) % Cardinality(SampleValues)]

\* The first parameter's values in n posterior samples, in the order of
\* their size.
SortedSamples(n) ==
    {vs \in [1..n -> SampleValues] : \A r \in 1..(n - 1) : vs[r] <= vs[r + 1]}

\* backend.posterior_samples: n rows
PosteriorSampleSets(d) ==
    UNION {{[r \in 1..n |-> SampleRow(d, vs[r])] : vs \in SortedSamples(n)} :
              n \in SampleSizes}

\* backend.samples[-1], backend.weights[-1], backend.sample_info[-1] of a
\* run whose final live samples have the largest log-likelihood ml: two
\* live samples, the one in the higher level standing last; the better
\* sample is the one in the higher level when ml is odd.
LiveSet(d, ml) ==
    [samples |-> <<[i \in 1..d |-> 0], [i \in 1..d |-> 1]>>,
     weights |-> <<1, 1>>,
     sample_info |->
         <<[level_assignment |-> 0,
            log_likelihood |-> IF ml % 2 = 0 THEN ml ELSE ml - 1],
           [level_assignment |-> 1,
            log_likelihood |-> IF ml % 2 = 0 THEN ml - 1 ELSE ml]>>]

Trace(log_Z, pop, posterior_samples, live) ==
    [log_Z |-> log_Z, H |-> Information(log_Z, pop),
     posterior_samples |-> posterior_samples, live |-> live]

\* The traces of the runs: the largest log-likelihood of the final live
\* samples is the run's log_Z.
Traces(d, pop) ==
    {Trace(z, pop, ps, LiveSet(d, z)) :
        z \in LogZs, ps \in PosteriorSampleSets(d)}

---------------------------------------------------------------------------
(* DNest4NestedSampling.                                                   *)

\* __init__
NewSampler(sampled_parameters, population_size) ==
    [sampled_parameters |-> sampled_parameters,
     population_size |->
         IF population_size = None
         THEN DefaultPopFactor * Len(sampled_parameters)
         ELSE population_size.v,
     dnest4_backend |-> "memory",
     _n_dims |-> Len(sampled_parameters),
     _log_evidence |-> None,
     _information |-> None,
     _output |-> None,
     _post_eval |-> FALSE,
     _logZ_err |-> Unset,
     _evidence_error |-> Unset,
     _evidence |-> Unset,
     _samples |-> Unset,
     _last_live_sample |-> Unset,
     _last_live_sample_weights |-> Unset,
     _last_live_sample_info |-> Unset,
     _posteriors |-> Unset,
     _file_root |-> Unset]

\* A run() that takes the evidence error from the log-evidence instead of
\* from its error.
RunOkErrorOfEvidence(s, t) ==
    [s EXCEPT !._output = Val("output"),
              !._log_evidence = Val(t.log_Z),
              !._information = Val(t.H),
              !._logZ_err = Val(Sqrt(t.H, s.population_size)),
              !._evidence_error = Val(Exp(t.log_Z)),
              !._evidence = Val(Exp(t.log_Z)),
              !._samples = Val(t.posterior_samples),
              !._last_live_sample = Val(t.live.samples),
              !._last_live_sample_weights = Val(t.live.weights),
              !._last_live_sample_info = Val(t.live.sample_info)]

\* run(), when the sampling and the postprocessing finish: t is what they
\* produced.
RunOk(s, t) ==
    LET logZ_err == Sqrt(t.H, s.population_size)
    IN  [s EXCEPT !._output = Val("output"),
                  !._log_evidence = Val(t.log_Z),
                  !._information = Val(t.H),
                  !._logZ_err = Val(logZ_err),
                  !._evidence_error = Val(Exp(logZ_err)),
                  !._evidence = Val(Exp(t.log_Z)),
                  !._samples = Val(t.posterior_samples),
                  !._last_live_sample = Val(t.live.samples),
                  !._last_live_sample_weights = Val(t.live.weights),
                  !._last_live_sample_info = Val(t.live.sample_info)]

\* A run() that raises after it assigned the first two results.
RunRaisePartial(s) ==
    [s EXCEPT !._output = Val("output"),
              !._log_evidence = Val(0),
              !._information = Val(Information(0, s.population_size))]

\* run(), when the log-likelihood raises while the sampler's generator is
\* consumed (line 166) or the postprocessing raises (line 170): only
\* self._output was assigned.
RunRaise(s) == [s EXCEPT !._output = Val("output")]

\* The attributes that hold the results of a run (lines 171-191).
ResultFieldNames ==
    {"_log_evidence", "_information", "_logZ_err", "_evidence_error",
     "_evidence", "_samples", "_last_live_sample",
     "_last_live_sample_weights", "_last_live_sample_info"}

\* The value run() returns: (self.log_evidence, self.log_evidence_error).
RunResult(s) == Return(<<s._log_evidence.v, s._logZ_err.v>>)

\* The property getters.
GetAttr(s, name) ==
    LET field == CASE name = "evidence" -> s._evidence
                   [] name = "evidence_error" -> s._evidence_error
                   [] name = "log_evidence" -> s._log_evidence
                   [] name = "log_evidence_error" -> s._logZ_err
                   [] name = "information" -> s._information
    IN  IF field = Unset THEN Raise("AttributeError") ELSE Return(field)

PropertyNames ==
    {"evidence", "evidence_error", "log_evidence", "log_evidence_error",
     "information"}

\* A setter that stores the value.
SetAttrStores(s, name, value) ==
    CASE name = "evidence" -> [s EXCEPT !._evidence = Val(value)]
      [] name = "evidence_error" -> [s EXCEPT !._evidence_error = Val(value)]
      [] name = "log_evidence" -> [s EXCEPT !._log_evidence = Val(value)]
      [] name = "log_evidence_error" -> [s EXCEPT !._logZ_err = Val(value)]
      [] name = "information" -> [s EXCEPT !._information = Val(value)]

\* The property setters: each only warns.
SetAttr(s, name, value) == s

\* np.histogram(column, density=True, bins=nbins): the densities and the
\* bin centers, as rationals.  The range is [min, max], widened by 0.5 on
\* each side when min = max; lo2, hi2 are its ends doubled.
Histogram(column, nbins) ==
    LET n == Len(column)
        mn == Min(Range(column))
        mx == Max(Range(column))
        lo2 == IF mn = mx THEN 2 * mn - 1 ELSE 2 * mn
        hi2 == IF mn = mx THEN 2 * mx + 1 ELSE 2 * mx
        bin(x) == LET k == ((2 * x - lo2) * nbins) \div (hi2 - lo2)
                  IN  IF k >= nbins THEN nbins ELSE k + 1
        count(b) == Cardinality({i \in 1..n : bin(column[i]) = b})
    IN  [marginal |-> [b \in 1..nbins |->
                          Rat(2 * count(b) * nbins, n * (hi2 - lo2))],
         center |-> [b \in 1..nbins |->
                          Rat(2 * lo2 * nbins + (2 * b - 1) * (hi2 - lo2),
                              4 * nbins)]]

\* The dict that lines 253-261 of posteriors() build from self._samples.
MarginalHistograms(s) ==
    LET samples == s._samples.v
        nbins == 2 * ICbrt(Len(samples))
    IN  [ii \in 1..s._n_dims |->
            [name |-> s.sampled_parameters[ii],
             hist |-> Histogram([r \in 1..Len(samples) |-> samples[r][ii]],
                                nbins)]]

\* A posteriors() that never uses its cache.
NeedsEvalAlways(s) == TRUE

\* Whether posteriors() takes the lazy-evaluation branch.
NeedsEval(s) == ~s._post_eval

\* Whether posteriors() raises: self._samples is read at line 253.
PosteriorsRaises(s) == NeedsEval(s) /\ s._samples = Unset

\* The sampler after posteriors() returned.  id names the dict object that
\* line 257 creates.
PosteriorsState(s, id) ==
    IF NeedsEval(s)
    THEN [s EXCEPT !._posteriors =
                       Val([id |-> id, items |-> MarginalHistograms(s)]),
                   !._post_eval = TRUE]
    ELSE s

\* How posteriors() ends.
PosteriorsOutcome(s, id) ==
    IF PosteriorsRaises(s) THEN Raise("AttributeError")
    ELSE Return(PosteriorsState(s, id)._posteriors)

\* The sum of a sequence of integers.
RECURSIVE SumSeq(_)
SumSeq(xs) ==
    IF xs = <<>> THEN 0 ELSE xs[1] + SumSeq(SubSeq(xs, 2, Len(xs)))

\* The sum of a sequence of rationals.
RECURSIVE RatSum(_)
RatSum(qs) ==
    IF qs = <<>> THEN Rat(0, 1)
    ELSE RatAdd(qs[1], RatSum(SubSeq(qs, 2, Len(qs))))

\* np.average(values, weights=weights)
WeightedAverage(values, weights) ==
    Rat(SumSeq([i \in DOMAIN values |-> values[i] * weights[i]]),
        SumSeq(weights))

\* self.loglikelihood, the function handed to the constructor: here the
\* log-likelihood that is minus the sum of the coordinates.
UserLogLikelihood(theta) == RatSub(Rat(0, 1), RatSum(theta))

\* The largest entry of a column that is not the log-likelihood.
MaxOfLevels(s) ==
    Max({row.level_assignment : row \in Range(s._last_live_sample_info.v)})

\* self._last_live_sample_info.max()['log_likelihood']: the largest entry
\* of the log_likelihood column.
MaxLogLikelihood(s) ==
    Max({row.log_likelihood : row \in Range(s._last_live_sample_info.v)})

\* 2.*k - 2.*ml
AkaikeIcValue(s) == 2 * Len(s.sampled_parameters) - 2 * MaxLogLikelihood(s)

\* np.log(n_data)*k - 2.*ml
BayesianIcValue(s, n_data) ==
    Log(n_data) * Len(s.sampled_parameters) - 2 * MaxLogLikelihood(s)

\* p_D + D_bar of deviance_ic
DevianceIcValue(s) ==
    LET params == s._last_live_sample.v
        info == s._last_live_sample_info.v
        weights == s._last_live_sample_weights.v
        D_of_theta == [i \in DOMAIN info |-> -2 * info[i].log_likelihood]
        D_bar == WeightedAverage(D_of_theta, weights)
        theta_bar ==
            [d \in 1..s._n_dims |->
                WeightedAverage([i \in DOMAIN params |-> params[i][d]],
                                weights)]
        D_of_theta_bar == RatMul(Rat(-2, 1), UserLogLikelihood(theta_bar))
        p_D == RatSub(D_bar, D_of_theta_bar)
    IN  RatAdd(p_D, D_bar)

\* The information criteria and what n_data they are called with (None
\* for the two that take no argument).
CriterionNames == {"akaike_ic", "bayesian_ic", "deviance_ic"}

DataCounts == {1, 4}

CriterionArgs(name) ==
    IF name = "bayesian_ic" THEN {Val(n) : n \in DataCounts} ELSE {None}

\* How a call of an information criterion ends: the attributes it reads
\* are first assigned by run().
CriterionOutcome(s, name, arg) ==
    IF s._last_live_sample_info = Unset THEN Raise("AttributeError")
    ELSE CASE name = "akaike_ic" -> Return(Val(AkaikeIcValue(s)))
           [] name = "bayesian_ic" -> Return(Val(BayesianIcValue(s, arg.v)))
           [] name = "deviance_ic" -> Return(Val(DevianceIcValue(s)))

\* An information criterion that sorts the sample info it reads in place,
\* best sample last.
CriterionStateSorts(s, name) ==
    IF s._last_live_sample_info = Unset THEN s
    ELSE LET info == s._last_live_sample_info.v
         IN  [s EXCEPT !._last_live_sample_info =
                 Val(IF info[1].log_likelihood > info[2].log_likelihood
                     THEN <<info[2], info[1]>> ELSE info)]

\* The sampler after a call of an information criterion: none of the
\* three assigns to an attribute.
CriterionState(s, name) == s

---------------------------------------------------------------------------
(* The record of a call: what was called, with what, how it ended, whether *)
(* warnings.warn was called; for an assignment to a property what reading  *)
(* the property gave before it (before); for a selector's batch which      *)
(* samplers' run() was called (ran) and which of them raised (failed).     *)

Call(op, arg, outcome, warned) ==
    [op |-> op, arg |-> arg, outcome |-> outcome, warned |-> warned,
     before |-> None, ran |-> {}, failed |-> {}]

NoCall == Call("none", None, Return(None), FALSE)

---------------------------------------------------------------------------
(* SpecSampler: one DNest4NestedSampling instance and its callers.         *)

PopulationSizes == {None, Val(4)}

\* The values a caller tries to assign to a property.
AssignedValues(name) ==
    IF name \in {"evidence", "evidence_error"} THEN {Rat(7, 1)} ELSE {7}

\* Whether the call was a posteriors() that returned.
ReturnedPosteriors(call) ==
    call.op = "posteriors" /\ call.outcome.kind = "return"

SamplerInit ==
    /\ \E d \in 1..Len(ParamNames), pop \in PopulationSizes :
           ns = NewSampler(SubSeq(ParamNames, 1, d), pop)
    /\ hist_evals = 0
    /\ prev_posteriors = FALSE

\* The sampler's variables in the specifications that do not use them.
SamplerIdle ==
    /\ ns = NewSampler(SubSeq(ParamNames, 1, 1), None)
    /\ hist_evals = 0
    /\ prev_posteriors = FALSE

\* ns.run() runs to the end.
SamplerRun ==
    /\ \E t \in Traces(ns._n_dims, ns.population_size) :
           /\ ns' = RunOk(ns, t)
           /\ last' = Call("run", t, RunResult(ns'), FALSE)
    /\ prev_posteriors' = ReturnedPosteriors(last)
    /\ UNCHANGED <<selectorVars, perturbVars, batchVars>>
    /\ UNCHANGED hist_evals

\* ns.run() raises out of the sampling loop.
SamplerRunRaises ==
    /\ ns' = RunRaise(ns)
    /\ last' = Call("run", None, Raise("Exception"), FALSE)
    /\ prev_posteriors' = ReturnedPosteriors(last)
    /\ UNCHANGED <<selectorVars, perturbVars, batchVars>>
    /\ UNCHANGED hist_evals

\* value = ns.<name>
ReadProperty ==
    /\ \E name \in PropertyNames :
           last' = Call("get", name, GetAttr(ns, name), FALSE)
    /\ prev_posteriors' = ReturnedPosteriors(last)
    /\ UNCHANGED <<selectorVars, perturbVars, batchVars>>
    /\ UNCHANGED <<ns, hist_evals>>

\* ns.<name> = value.  The record keeps what a read of the property gave
\* before the assignment.
AssignProperty ==
    /\ \E name \in PropertyNames :
       \E value \in AssignedValues(name) :
           /\ ns' = SetAttr(ns, name, value)
           /\ last' = [Call("set", name, Return(None), TRUE)
                          EXCEPT !.before = GetAttr(ns, name)]
    /\ prev_posteriors' = ReturnedPosteriors(last)
    /\ UNCHANGED <<selectorVars, perturbVars, batchVars>>
    /\ UNCHANGED hist_evals

\* ns.posteriors()
Posteriors ==
    /\ hist_evals < MaxEvals
    /\ ns' = IF PosteriorsRaises(ns) THEN ns
             ELSE PosteriorsState(ns, hist_evals + 1)
    /\ hist_evals' = IF PosteriorsRaises(ns) \/ ~NeedsEval(ns)
                     THEN hist_evals ELSE hist_evals + 1
    /\ last' = Call("posteriors", None,
                    PosteriorsOutcome(ns, hist_evals + 1), FALSE)
    /\ prev_posteriors' = ReturnedPosteriors(last)
    /\ UNCHANGED <<selectorVars, perturbVars, batchVars>>

\* ns.akaike_ic(), ns.bayesian_ic(n_data), ns.deviance_ic()
InformationCriterion ==
    /\ \E name \in CriterionNames :
       \E arg \in CriterionArgs(name) :
           /\ ns' = CriterionState(ns, name)
           /\ last' = Call(name, arg, CriterionOutcome(ns, name, arg), FALSE)
    /\ prev_posteriors' = ReturnedPosteriors(last)
    /\ UNCHANGED <<selectorVars, perturbVars, batchVars>>
    /\ UNCHANGED hist_evals

SamplerNext ==
    \/ SamplerRun
    \/ SamplerRunRaises
    \/ ReadProperty
    \/ AssignProperty
    \/ Posteriors
    \/ InformationCriterion

---------------------------------------------------------------------------
(* HypSelector.                                                            *)

NsVersions == {"gleipnir-classic", "multinest", "polychord", "dnest4"}

\* "model_{}".format(i)
ModelName(i) == <<"model", i>>

\* The pysb model that load_models imports from hb_models/model_<i>.py.
LoadedModel(i) ==
    [name |-> ModelName(i),
     sampled_parameters |-> SubSeq(ParamNames, 1, 1 + (i % Len(ParamNames)))]

\* load_models
LoadModels(n) == [p \in 1..n |-> LoadedModel(p - 1)]

\* The backends of DNest4NestedSampling (dnest4_backend).
DNest4Backends == {"memory", "csv"}

\* ns_version together with the dnest4_backend that ns_kwargs hands to the
\* sampler's constructor: the DNest4 sampler takes either backend, the
\* other samplers have none to choose.
SamplerChoices ==
    {[ns_version |-> v, dnest4_backend |-> "memory"] : v \in NsVersions}
        \cup {[ns_version |-> "dnest4", dnest4_backend |-> b] :
                  b \in DNest4Backends}

\* The observable_data that a NestedSampleIt holds, by the lengths of the
\* data arrays of its items.
ObservableDatas == {<<1>>, <<2, 2>>}

\* NestedSampleIt(model, observable_data, timespan, ...)
NewSampleIt(model) == [model |-> model.name]

\* The sampler gen_nested_samplers builds for the model at position p
\* (Python index p - 1), with the multinest and polychord file-root patch.
GenSampler(model, p, ns_version, dnest4_backend) ==
    LET ns_sampler == [NewSampler(model.sampled_parameters,
                                  Val(NsPopulationSize))
                          EXCEPT !.dnest4_backend = dnest4_backend]
    IN  CASE ns_version = "multinest" ->
                 [ns_sampler EXCEPT
                     !._file_root = Val(<<"multinest_run_model", p - 1>>)]
          [] ns_version = "polychord" ->
                 [ns_sampler EXCEPT
                     !._file_root = Val(<<"polychord_run_model", p - 1>>)]
          [] OTHER -> ns_sampler

\* Where a sampler's run() writes its output files: under the file root
\* that gen_nested_samplers patched in, or, for the DNest4 sampler with
\* the csv backend, in the directory "." (CSVBackend(".", sep=" ")); None
\* when the run keeps its output in memory.
OutputTarget(s) ==
    IF s._file_root # Unset THEN s._file_root
    ELSE IF s.dnest4_backend = "csv" THEN Val(<<".">>)
    ELSE None

\* What one sampler's run() does within a batch: it raises, or finishes
\* with a trace.  Within a batch the traces differ in log_Z and H only,
\* log_Z being the smallest, the middle or the largest of LogZs.
Failure == [raises |-> TRUE]

SelectorLogZs == {-MaxLogZ, 0, MaxLogZ}

SelectorTraces(s) ==
    {Trace(z, s.population_size, <<SampleRow(s._n_dims, 0)>>,
           LiveSet(s._n_dims, z)) : z \in SelectorLogZs}

\* The outcomes of the run() calls of a batch in which every run()
\* finishes: one trace for each sampler.
RECURSIVE BatchOutcomes(_)
BatchOutcomes(samplers) ==
    IF samplers = <<>> THEN {<<>>}
    ELSE {Append(rest, t) :
            rest \in BatchOutcomes(SubSeq(samplers, 1, Len(samplers) - 1)),
            t \in SelectorTraces(samplers[Len(samplers)])}

\* The outcomes of the run() calls of a batch in which a run() raises:
\* the runs before it finish, and the loop of lines 241-242 calls no
\* run() after it.
FailingBatchOutcomes(samplers) ==
    UNION {{Append(finished, Failure) :
               finished \in BatchOutcomes(SubSeq(samplers, 1, k - 1))} :
              k \in 1..Len(samplers)}

\* The position of the sampler whose run() raises; 0 when none does.
FirstFailure(outcomes) ==
    IF outcomes # <<>> /\ outcomes[Len(outcomes)] = Failure
    THEN Len(outcomes) ELSE 0

\* The positions whose run() the loop of lines 241-242 calls.
RanInBatch(outcomes) == DOMAIN outcomes

\* The samplers after the loop of lines 241-242.
RunAll(samplers, outcomes) ==
    [p \in DOMAIN samplers |->
        IF p \notin RanInBatch(outcomes) THEN samplers[p]
        ELSE IF outcomes[p] = Failure THEN RunRaise(samplers[p])
        ELSE RunOk(samplers[p], outcomes[p])]

\* The list of rows that lines 243-249 build; index is the row's label in
\* the DataFrame.
Frame(samplers) ==
    [p \in DOMAIN samplers |->
        [index |-> p - 1,
         model |-> ModelName(p - 1),
         log_evidence |-> GetAttr(samplers[p], "log_evidence").value.v,
         log_evidence_error |->
             GetAttr(samplers[p], "log_evidence_error").value.v]]

\* The order of an ascending sort.
PlacedBeforeAscending(a, b) == a.log_evidence <= b.log_evidence

\* Whether row a is placed before row b, a standing before b in the input.
PlacedBefore(a, b) == a.log_evidence >= b.log_evidence

\* sort_values(by=['log_evidence'], ascending=False): rows that compare
\* equal keep their order.
RECURSIVE InsertRow(_, _)
InsertRow(sorted, row) ==
    IF sorted = <<>> THEN <<row>>
    ELSE IF PlacedBefore(sorted[Len(sorted)], row)
         THEN Append(sorted, row)
         ELSE Append(InsertRow(SubSeq(sorted, 1, Len(sorted) - 1), row),
                     sorted[Len(sorted)])

RECURSIVE SortValues(_)
SortValues(frame) ==
    IF frame = <<>> THEN <<>>
    ELSE InsertRow(SortValues(SubSeq(frame, 1, Len(frame) - 1)),
                   frame[Len(frame)])

\* reset_index(drop=True)
ResetIndex(table) == [r \in DOMAIN table |-> [table[r] EXCEPT !.index = r - 1]]

\* number_of_models
NumberOfModels == model_files

\* An entry that is the column's evidence alone.
BayesFactorEntryNoRatio(samplers, r, c) ==
    IF r = c THEN RatOne
    ELSE Exp(GetAttr(samplers[c], "log_evidence").value.v)

\* The entry of the Bayes-factor table at row position r, column position
\* c.  Line 274 stores exp(loge_i - loge_j) at [j, i]: the row is j and
\* the column is i.
BayesFactorEntry(samplers, r, c) ==
    IF r = c THEN RatOne
    ELSE Exp(GetAttr(samplers[c], "log_evidence").value.v
             - GetAttr(samplers[r], "log_evidence").value.v)

\* Whether the loops of lines 268-274 raise: loge_i - loge_j with a None
\* operand is a TypeError, and it is evaluated only for i != j.
BayesFactorsRaises(samplers) ==
    \E i, j \in DOMAIN samplers :
        /\ i # j
        /\ \/ GetAttr(samplers[i], "log_evidence").value = None
           \/ GetAttr(samplers[j], "log_evidence").value = None

\* The table bayes_factors returns: rows and columns are labelled
\* model_0 .. model_<n-1> in this order.
BayesFactorTable(samplers, n) ==
    [labels |-> [p \in 1..n |-> ModelName(p - 1)],
     entries |-> [r \in 1..n |->
                     [c \in 1..n |-> BayesFactorEntry(samplers, r, c)]]]

\* _n_data: the number of data points of the observable data that the
\* first model's NestedSampleIt holds.
NData(observable_data) == SumSeq(observable_data)

\* The list of rows that akaike_ic and bayesian_ic build: one row for each
\* sampler, with the model's name and the value of the sampler's
\* criterion.
CriterionFrame(samplers, name, arg) ==
    [p \in DOMAIN samplers |->
        [index |-> p - 1,
         model |-> ModelName(p - 1),
         value |-> CriterionOutcome(samplers[p], name, arg).value.v]]

\* The order of a descending sort.
CriterionPlacedBeforeDescending(a, b) == a.value >= b.value

\* Whether row a is placed before row b, a standing before b in the input.
CriterionPlacedBefore(a, b) == a.value <= b.value

\* sort_values(by=['AIC'], ascending=True), and the same by 'BIC': rows
\* that compare equal keep their order.
RECURSIVE InsertCriterionRow(_, _)
InsertCriterionRow(sorted, row) ==
    IF sorted = <<>> THEN <<row>>
    ELSE IF CriterionPlacedBefore(sorted[Len(sorted)], row)
         THEN Append(sorted, row)
         ELSE Append(InsertCriterionRow(SubSeq(sorted, 1, Len(sorted) - 1),
                                        row),
                     sorted[Len(sorted)])

RECURSIVE SortCriterion(_)
SortCriterion(rows) ==
    IF rows = <<>> THEN <<>>
    ELSE InsertCriterionRow(SortCriterion(SubSeq(rows, 1, Len(rows) - 1)),
                            rows[Len(rows)])

\* How the selector's akaike_ic() (arg None) or bayesian_ic() (arg the
\* n_data it computed) ends, the loop over the samplers being reached:
\* a sampler that has no finished run raises.
CriterionTableOutcome(samplers, name, arg) ==
    IF \E p \in DOMAIN samplers :
           CriterionOutcome(samplers[p], name, arg).kind = "raise"
    THEN Raise("AttributeError")
    ELSE Return(Val(ResetIndex(
             SortCriterion(CriterionFrame(samplers, name, arg)))))

---------------------------------------------------------------------------
(* Spec: one HypSelector and its callers.                                  *)

SelectorInit ==
    /\ model_files \in 1..MaxModels
    /\ models = None
    /\ nested_samplers = None
    /\ selection = None
    /\ nested_sample_its = None

\* The selector's variables in the specifications that do not use them.
SelectorIdle ==
    /\ model_files = 1
    /\ models = None
    /\ nested_samplers = None
    /\ selection = None
    /\ nested_sample_its = None

\* hs.gen_nested_samplers(..., ns_version=..., ns_kwargs=...)
GenNestedSamplers ==
    \E choice \in SamplerChoices :
        LET loaded == IF models = None THEN LoadModels(model_files)
                      ELSE models.v
        IN  /\ models' = Val(loaded)
            /\ nested_samplers' =
                   Val([p \in DOMAIN loaded |->
                           GenSampler(loaded[p], p, choice.ns_version,
                                      choice.dnest4_backend)])
            /\ nested_sample_its' =
                   Val([p \in DOMAIN loaded |-> NewSampleIt(loaded[p])])
            /\ last' = Call("gen_nested_samplers", choice,
                            Return(None), FALSE)
            /\ UNCHANGED <<model_files, selection>>
            /\ UNCHANGED <<samplerVars, perturbVars, batchVars>>

\* A call before gen_nested_samplers that goes through the loops over an
\* empty list of samplers and stores and returns an empty table.
RunNestedSamplingUnreadyEmptyTable ==
    /\ nested_samplers = None
    /\ nested_samplers' = Val(<<>>)
    /\ selection' = Val(<<>>)
    /\ last' = Call("run_nested_sampling", None, Return(Val(<<>>)), FALSE)
    /\ UNCHANGED <<model_files, models, nested_sample_its>>
    /\ UNCHANGED <<samplerVars, perturbVars, batchVars>>

\* hs.run_nested_sampling() before gen_nested_samplers: warns and returns.
RunNestedSamplingUnready ==
    /\ nested_samplers = None
    /\ last' = Call("run_nested_sampling", None, Return(None), TRUE)
    /\ UNCHANGED selectorVars
    /\ UNCHANGED <<samplerVars, perturbVars, batchVars>>

\* hs.run_nested_sampling(): every sampler's run() finishes.
RunNestedSampling ==
    /\ nested_samplers # None
    /\ \E outcomes \in BatchOutcomes(nested_samplers.v) :
           LET samplers == RunAll(nested_samplers.v, outcomes)
               sorted == SortValues(Frame(samplers))
           IN  /\ FirstFailure(outcomes) = 0
               /\ nested_samplers' = Val(samplers)
               /\ selection' = Val(sorted)
               /\ last' = [Call("run_nested_sampling", outcomes,
                                Return(Val(ResetIndex(sorted))), FALSE)
                              EXCEPT !.ran = RanInBatch(outcomes)]
    /\ UNCHANGED <<model_files, models, nested_sample_its>>
    /\ UNCHANGED <<samplerVars, perturbVars, batchVars>>

\* hs.run_nested_sampling(): a sampler's run() raises, and the exception
\* leaves run_nested_sampling at line 242.
RunNestedSamplingRaises ==
    /\ nested_samplers # None
    /\ \E outcomes \in FailingBatchOutcomes(nested_samplers.v) :
           /\ FirstFailure(outcomes) # 0
           /\ nested_samplers' = Val(RunAll(nested_samplers.v, outcomes))
           /\ last' = [Call("run_nested_sampling", outcomes,
                            Raise("Exception"), FALSE)
                          EXCEPT !.ran = RanInBatch(outcomes),
                                 !.failed = {FirstFailure(outcomes)}]
    /\ UNCHANGED <<model_files, models, selection, nested_sample_its>>
    /\ UNCHANGED <<samplerVars, perturbVars, batchVars>>

\* hs.bayes_factors()
BayesFactors ==
    /\ last' = Call("bayes_factors", None,
                    IF nested_samplers = None
                    THEN Raise("TypeError")
                    ELSE IF BayesFactorsRaises(nested_samplers.v)
                    THEN Raise("TypeError")
                    ELSE Return(Val(BayesFactorTable(nested_samplers.v,
                                                     NumberOfModels))),
                    FALSE)
    /\ UNCHANGED selectorVars
    /\ UNCHANGED <<samplerVars, perturbVars, batchVars>>

\* hs.akaike_ic(): before gen_nested_samplers the loop is over None.
AkaikeIc ==
    /\ last' = Call("akaike_ic", None,
                    IF nested_samplers = None THEN Raise("TypeError")
                    ELSE CriterionTableOutcome(nested_samplers.v,
                                               "akaike_ic", None),
                    FALSE)
    /\ UNCHANGED selectorVars
    /\ UNCHANGED <<samplerVars, perturbVars, batchVars>>

\* hs.bayesian_ic(): before gen_nested_samplers _n_data indexes None;
\* after it, it reads the observable data of self._nested_sample_its[0].
BayesianIc ==
    /\ \E observable_data \in ObservableDatas :
           last' = IF nested_sample_its = None
                   THEN Call("bayesian_ic", None, Raise("TypeError"), FALSE)
                   ELSE LET n_data == Val(NData(observable_data))
                        IN  Call("bayesian_ic", n_data,
                                 CriterionTableOutcome(nested_samplers.v,
                                                       "bayesian_ic",
                                                       n_data),
                                 FALSE)
    /\ UNCHANGED selectorVars
    /\ UNCHANGED <<samplerVars, perturbVars, batchVars>>

SelectorNext ==
    \/ GenNestedSamplers
    \/ RunNestedSamplingUnready
    \/ RunNestedSampling
    \/ RunNestedSamplingRaises
    \/ BayesFactors
    \/ AkaikeIc
    \/ BayesianIc

---------------------------------------------------------------------------
(* SpecBatch: run_nested_sampling statement by statement.  pc is "idle"    *)
(* between calls, "run_loop" at the head of the loop of line 241, "in_run" *)
(* while the run() called at line 242 executes, and "frame_loop" at the    *)
(* head of the loop of line 244.                                           *)

\* A loop that stops one position early.
LoopDoneEarly(i, n) == i >= n

\* Whether range(len(self.nested_samplers)) is exhausted at position i of
\* n (line 241).
LoopDone(i, n) == i > n

\* hs.gen_nested_samplers(...), between two calls of run_nested_sampling.
BatchGen ==
    /\ pc = "idle"
    /\ GenNestedSamplers

\* hs.run_nested_sampling() before gen_nested_samplers: lines 229-232.
BatchUnready ==
    /\ pc = "idle"
    /\ RunNestedSamplingUnready

\* hs.run_nested_sampling() is called: lines 229-233.
BatchEnter ==
    /\ pc = "idle"
    /\ nested_samplers # None
    /\ pc' = "run_loop"
    /\ loop_i' = 1
    /\ running' = {}
    /\ started' = <<>>
    /\ run_done' = {}
    /\ frame_rows' = <<>>
    /\ UNCHANGED <<selectorVars, last>>
    /\ UNCHANGED <<samplerVars, perturbVars>>

\* Line 242: self.nested_samplers[i].run() is called.
BatchRunCall ==
    /\ pc = "run_loop"
    /\ ~LoopDone(loop_i, Len(nested_samplers.v))
    /\ pc' = "in_run"
    /\ running' = running \cup {loop_i}
    /\ started' = Append(started, loop_i)
    /\ UNCHANGED <<loop_i, run_done, frame_rows>>
    /\ UNCHANGED <<selectorVars, last>>
    /\ UNCHANGED <<samplerVars, perturbVars>>

\* Line 242: the run() returns, and the loop goes on to the next position.
BatchRunReturn ==
    /\ pc = "in_run"
    /\ \E t \in SelectorTraces(nested_samplers.v[loop_i]) :
           nested_samplers' =
               Val([nested_samplers.v EXCEPT ![loop_i] = RunOk(@, t)])
    /\ running' = running \ {loop_i}
    /\ run_done' = run_done \cup {loop_i}
    /\ loop_i' = loop_i + 1
    /\ pc' = "run_loop"
    /\ UNCHANGED <<started, frame_rows>>
    /\ UNCHANGED <<model_files, models, selection, nested_sample_its, last>>
    /\ UNCHANGED <<samplerVars, perturbVars>>

\* Line 242: the run() raises, and the exception leaves
\* run_nested_sampling.
BatchRunRaises ==
    /\ pc = "in_run"
    /\ nested_samplers' =
           Val([nested_samplers.v EXCEPT ![loop_i] = RunRaise(@)])
    /\ running' = running \ {loop_i}
    /\ pc' = "idle"
    /\ last' = [Call("run_nested_sampling", None, Raise("Exception"), FALSE)
                   EXCEPT !.ran = Range(started),
                          !.failed = {loop_i}]
    /\ UNCHANGED <<loop_i, started, run_done, frame_rows>>
    /\ UNCHANGED <<model_files, models, selection, nested_sample_its>>
    /\ UNCHANGED <<samplerVars, perturbVars>>

\* Line 243: the loop of line 241 has ended; frame = list().
BatchFrameStart ==
    /\ pc = "run_loop"
    /\ LoopDone(loop_i, Len(nested_samplers.v))
    /\ pc' = "frame_loop"
    /\ loop_i' = 1
    /\ frame_rows' = <<>>
    /\ UNCHANGED <<running, started, run_done>>
    /\ UNCHANGED <<selectorVars, last>>
    /\ UNCHANGED <<samplerVars, perturbVars>>

\* Lines 244-249: the row of one sampler is built from its log_evidence
\* and log_evidence_error and appended to frame.
BatchFrameRow ==
    /\ pc = "frame_loop"
    /\ loop_i <= Len(nested_samplers.v)
    /\ frame_rows' = Append(frame_rows, Frame(nested_samplers.v)[loop_i])
    /\ loop_i' = loop_i + 1
    /\ UNCHANGED <<pc, running, started, run_done>>
    /\ UNCHANGED <<selectorVars, last>>
    /\ UNCHANGED <<samplerVars, perturbVars>>

\* Lines 250-253: the table is built, sorted, stored and returned.
BatchAggregate ==
    /\ pc = "frame_loop"
    /\ loop_i > Len(nested_samplers.v)
    /\ LET sorted == SortValues(frame_rows)
       IN  /\ selection' = Val(sorted)
           /\ last' = [Call("run_nested_sampling", None,
                            Return(Val(ResetIndex(sorted))), FALSE)
                          EXCEPT !.ran = Range(started)]
    /\ pc' = "idle"
    /\ UNCHANGED <<loop_i, running, started, run_done, frame_rows>>
    /\ UNCHANGED <<model_files, models, nested_samplers, nested_sample_its>>
    /\ UNCHANGED <<samplerVars, perturbVars>>

BatchNext ==
    \/ BatchGen
    \/ BatchUnready
    \/ BatchEnter
    \/ BatchRunCall
    \/ BatchRunReturn
    \/ BatchRunRaises
    \/ BatchFrameStart
    \/ BatchFrameRow
    \/ BatchAggregate

---------------------------------------------------------------------------
(* SpecPerturb: the _DNest4Model that DNest4NestedSampling.__init__ builds *)
(* and a live point that DNest4 draws with from_prior and moves with       *)
(* perturb.  Coordinates are integers; the priors draw even values, so     *)
(* that the center (high+low)/2 is an integer.                             *)

PriorValues == {2 * k : k \in 0..MaxCoord}

\* The width and center estimates of lines 135-139, from a sample rv of
\* the prior whose smallest value is low and largest value is high.
WidthEstimate(low, high) == high - low
CenterEstimate(low, high) == (high + low) \div 2

\* _DNest4Model.__init__
NewDNest4Model(widths, centers) ==
    [_widths |-> widths, _centers |-> centers, _n_dim |-> Len(widths)]

\* dnest4.wrap(x, a, b) for b > a: x brought into [a, b) modulo b - a.
Wrap(x, a, b) == ((x - a) % (b - a)) + a

\* The ends of the interval perturb wraps dimension idx into:
\* cc - 0.5*cw and cc + 0.5*cw; widths are even, so cw \div 2 is 0.5*cw.
LowerBound(m, idx) == m._centers[idx] - (m._widths[idx] \div 2)
UpperBound(m, idx) == m._centers[idx] + (m._widths[idx] \div 2)

\* self._widths[idx]*(np.random.uniform(size=1)-0.5): the offsets that a
\* uniform draw from [0, 1) gives, on the integers.
Offsets(m, idx) ==
    {o \in -(m._widths[idx] \div 2)..(m._widths[idx] \div 2) :
        o < m._widths[idx] \div 2 \/ m._widths[idx] = 0}

\* dnest4.wrap asserts b > a.
PerturbRaises(m, idx) == ~(UpperBound(m, idx) > LowerBound(m, idx))

\* A perturb that does not wrap.
PerturbedNoWrap(m, c, idx, offset) == [c EXCEPT ![idx] = c[idx] + offset]

\* The coordinate vector after perturb moved dimension idx by offset.
Perturbed(m, c, idx, offset) ==
    IF PerturbRaises(m, idx) THEN [c EXCEPT ![idx] = c[idx] + offset]
    ELSE [c EXCEPT ![idx] = Wrap(c[idx] + offset, LowerBound(m, idx),
                                 UpperBound(m, idx))]

\* DNest4NestedSampling.__init__, lines 131-146: each parameter's sample
\* of the prior has some smallest and some largest value.
PerturbInit ==
    /\ \E lows \in [1..Len(ParamNames) -> PriorValues],
          highs \in [1..Len(ParamNames) -> PriorValues] :
           /\ \A d \in 1..Len(ParamNames) : lows[d] <= highs[d]
           /\ dnest4_model =
                  NewDNest4Model(
                      [d \in 1..Len(ParamNames) |->
                          WidthEstimate(lows[d], highs[d])],
                      [d \in 1..Len(ParamNames) |->
                          CenterEstimate(lows[d], highs[d])])
    /\ coords = <<>>

\* coords = model.from_prior(): one draw from each parameter's prior.
FromPrior ==
    /\ \E c \in [1..dnest4_model._n_dim -> PriorValues] :
           /\ coords' = c
           /\ last' = Call("from_prior", None, Return(Val(c)), FALSE)
    /\ UNCHANGED dnest4_model
    /\ UNCHANGED <<samplerVars, selectorVars, batchVars>>

\* model.perturb(coords), on a live point.  The record keeps the
\* coordinates before the call.
Perturb ==
    /\ coords # <<>>
    /\ \E idx \in 1..dnest4_model._n_dim :
       \E offset \in Offsets(dnest4_model, idx) :
           /\ coords' = Perturbed(dnest4_model, coords, idx, offset)
           /\ last' = [Call("perturb", [idx |-> idx, offset |-> offset],
                            IF PerturbRaises(dnest4_model, idx)
                            THEN Raise("AssertionError") ELSE Return(0),
                            FALSE)
                          EXCEPT !.before = Val(coords)]
    /\ UNCHANGED dnest4_model
    /\ UNCHANGED <<samplerVars, selectorVars, batchVars>>

\* The floats a log-likelihood can return besides the finite ones.
NaN == [tag |-> "nan"]
NegInf == [tag |-> "-inf"]

\* What the user-supplied log-likelihood function returns for a parameter
\* vector.
UserLogLikelihoods == {NaN, NegInf, Val(-1), Val(0)}

\* _DNest4Model.log_likelihood: the value of the user-supplied function is
\* returned as it is.
ModelLogLikelihood(user_value) == user_value

\* model.log_likelihood(coords), the call DNest4 makes to get the value it
\* compares and stores for a live point.
LogLikelihood ==
    /\ coords # <<>>
    /\ \E user_value \in UserLogLikelihoods :
           last' = Call("log_likelihood", user_value,
                        Return(ModelLogLikelihood(user_value)), FALSE)
    /\ UNCHANGED perturbVars
    /\ UNCHANGED <<samplerVars, selectorVars, batchVars>>

PerturbNext ==
    \/ FromPrior
    \/ Perturb
    \/ LogLikelihood

---------------------------------------------------------------------------
(* The specifications.                                                     *)

PerturbIdle ==
    /\ dnest4_model = None
    /\ coords = <<>>

\* No call of run_nested_sampling is under way.
BatchIdle ==
    /\ pc = "idle"
    /\ loop_i = 0
    /\ running = {}
    /\ started = <<>>
    /\ run_done = {}
    /\ frame_rows = <<>>

InitSampler ==
    SamplerInit /\ SelectorIdle /\ PerturbIdle /\ BatchIdle /\ last = NoCall

InitSelector ==
    SelectorInit /\ SamplerIdle /\ PerturbIdle /\ BatchIdle /\ last = NoCall

SpecSampler == InitSampler /\ [][SamplerNext]_vars

InitPerturb ==
    PerturbInit /\ SamplerIdle /\ SelectorIdle /\ BatchIdle /\ last = NoCall

Spec == InitSelector /\ [][SelectorNext]_vars

SpecPerturb == InitPerturb /\ [][PerturbNext]_vars

InitBatch ==
    SelectorInit /\ SamplerIdle /\ PerturbIdle /\ BatchIdle /\ last = NoCall

SpecBatch == InitBatch /\ [][BatchNext]_vars

---------------------------------------------------------------------------
(* Properties.                                                             *)

Returned(call) == call.outcome.kind = "return"

\* The log_evidence of the sampler at position p.
LogZ(p) == nested_samplers.v[p]._log_evidence.v

\* Whether a run() of the sampler has finished.
Completed(s) == s._log_evidence # None

\* The table a bayes_factors() call returned.
ReturnedBayesFactors ==
    /\ last.op = "bayes_factors"
    /\ Returned(last)

\* C1: in the table bayes_factors() returns, the entry at row model_i,
\* column model_j is exp(logZ_i - logZ_j), for all i and j.
C1_EntryIsRatioRowOverColumn ==
    (/\ ReturnedBayesFactors
     /\ \A p \in 1..model_files : Completed(nested_samplers.v[p])) =>
        \A i, j \in 1..model_files :
            last.outcome.value.v.entries[i][j] = Exp(LogZ(i) - LogZ(j))

ReturnedSelection ==
    /\ last.op = "run_nested_sampling"
    /\ Returned(last)
    /\ last.outcome.value # None

\* C3: after gen_nested_samplers, the table run_nested_sampling() returns
\* is the one stored in selection; it has exactly one row for each model,
\* holding the model's name and the log_evidence and log_evidence_error of
\* the run just made, and its rows are in non-increasing order of
\* log_evidence.
C3_SelectionTable ==
    ReturnedSelection =>
        LET table == last.outcome.value.v
        IN  /\ selection # None
            /\ ResetIndex(selection.v) = table
            /\ Len(table) = model_files
            /\ \A p \in 1..model_files :
                   \E r \in 1..Len(table) :
                       /\ table[r].model = ModelName(p - 1)
                       /\ table[r].log_evidence = last.arg[p].log_Z
                       /\ table[r].log_evidence_error =
                              Sqrt(last.arg[p].H,
                                   nested_samplers.v[p].population_size)
            /\ \A r \in 1..(Len(table) - 1) :
                   table[r].log_evidence >= table[r + 1].log_evidence

C3_Witness ==
    /\ ReturnedSelection
    /\ model_files >= 2
    /\ last.outcome.value.v[1].model = ModelName(1)
    /\ last.outcome.value.v[1].log_evidence
           > last.outcome.value.v[2].log_evidence

\* C4: when one sampler's run() raises within run_nested_sampling(), the
\* run() of every other sampler is still called and the call returns a
\* table.
C4_FailureDoesNotAbortBatch ==
    (last.op = "run_nested_sampling" /\ last.failed # {}) =>
        /\ last.ran = 1..model_files
        /\ Returned(last)

\* C5: bayes_factors() raises whenever one of the selector's samplers has
\* not completed a run.
C5_ErrorWhenARunIsMissing ==
    (/\ last.op = "bayes_factors"
     /\ nested_samplers # None
     /\ \E p \in 1..model_files : ~Completed(nested_samplers.v[p]))
        => ~Returned(last)

\* C6: an assignment to evidence, evidence_error, log_evidence,
\* log_evidence_error or information warns, and reading the property
\* afterwards gives what reading it gave before the assignment.
C6_AssignmentRejected ==
    last.op = "set" =>
        /\ last.warned
        /\ GetAttr(ns, last.arg) = last.before

C6_Witness ==
    /\ last.op = "set"
    /\ last.arg = "evidence"
    /\ Completed(ns)
    /\ last.before.kind = "return"

\* C7: on a sampler on which no run() has finished, posteriors() and the
\* reading of each evidence-related property raise.
C7_NotReadyRaises ==
    (~Completed(ns) /\ last.op \in {"get", "posteriors"}) => ~Returned(last)

\* C8: the mapping posteriors() returns is the histogram set of the
\* posterior samples of the most recently completed run().
C8_PosteriorsOfLatestRun ==
    (last.op = "posteriors" /\ Returned(last)) =>
        last.outcome.value.v.items = MarginalHistograms(ns)

\* C9: a posteriors() call that directly follows a posteriors() call
\* returns the same object, builds no histogram and changes nothing in the
\* sampler.
C9_SecondCallUsesCache ==
    [][(ReturnedPosteriors(last) /\ last'.op = "posteriors") =>
           /\ last'.outcome = last.outcome
           /\ hist_evals' = hist_evals
           /\ ns' = ns]_vars

C9_Witness ==
    /\ prev_posteriors
    /\ ReturnedPosteriors(last)

\* Whether dimension d of the live point lies within its bounds.
WithinBounds(d) ==
    /\ LowerBound(dnest4_model, d) <= coords[d]
    /\ coords[d] <= UpperBound(dnest4_model, d)

\* C10 as stated: after each perturb application every dimension of the
\* live point lies within [center - width/2, center + width/2].
C10_EveryDimensionWithinBounds ==
    (last.op = "perturb" /\ Returned(last)) =>
        \A d \in 1..dnest4_model._n_dim : WithinBounds(d)

\* C10 as amended: after each perturb application that returns, the
\* dimension perturb chose lies within [center - width/2, center +
\* width/2], and every other dimension is as it was before the call.
C10_PerturbedDimensionWithinBounds ==
    (last.op = "perturb" /\ Returned(last)) =>
        /\ WithinBounds(last.arg.idx)
        /\ \A d \in 1..dnest4_model._n_dim :
               d # last.arg.idx => coords[d] = last.before.v[d]

C10_Witness ==
    /\ last.op = "perturb"
    /\ Returned(last)
    /\ last.before.v[last.arg.idx] + last.arg.offset
           < LowerBound(dnest4_model, last.arg.idx)
    /\ WithinBounds(last.arg.idx)

\* C11: whenever the user-supplied log-likelihood returns not-a-number,
\* the value the model's log_likelihood hands to the sampler is negative
\* infinity; a NaN is never handed over.
C11_NaNMappedToNegInf ==
    last.op = "log_likelihood" =>
        /\ last.outcome.value # NaN
        /\ last.arg = NaN => last.outcome.value = NegInf

\* C12: in every state a caller of the sampler can see, also after a
\* run() that raised and after a second run(), the result fields are
\* either all unset or all the results of one and the same finished run.
C12_ResultsNeverPartial ==
    \/ \A f \in ResultFieldNames : ns[f] \in {Unset, None}
    \/ \E t \in Traces(ns._n_dims, ns.population_size) :
           \A f \in ResultFieldNames : ns[f] = RunOk(ns, t)[f]

C12_Witness ==
    /\ last.op = "run"
    /\ ~Returned(last)
    /\ Completed(ns)
    /\ ns._samples # Unset

\* Whether the runs of two samplers write to the same place.
SameOutputTarget(a, b) ==
    /\ OutputTarget(a) # None
    /\ OutputTarget(a) = OutputTarget(b)

\* C13: whatever sampler and backend gen_nested_samplers was asked for,
\* the samplers it built for two different models never write their
\* output to the same place.
C13_DistinctOutputNamespaces ==
    nested_samplers # None =>
        \A p, q \in DOMAIN nested_samplers.v :
            p # q => ~SameOutputTarget(nested_samplers.v[p],
                                       nested_samplers.v[q])

\* C14: once a run() has finished, reading log_evidence_error gives
\* sqrt(information / population_size) and reading evidence_error gives
\* exp(log_evidence_error), also after any later assignments to the
\* properties and calls of posteriors() and the information criteria.
C14_ErrorsFollowInformation ==
    Completed(ns) =>
        /\ GetAttr(ns, "log_evidence_error").value.v
               = Sqrt(GetAttr(ns, "information").value.v, ns.population_size)
        /\ GetAttr(ns, "evidence_error").value.v
               = Exp(GetAttr(ns, "log_evidence_error").value.v)

C14_Witness ==
    /\ Completed(ns)
    /\ last.op = "set"
    /\ last.arg = "log_evidence_error"
    /\ ns._post_eval
    /\ GetAttr(ns, "log_evidence_error").value.v > 0

\* C15: after a finished run, a call of akaike_ic(), bayesian_ic(n_data)
\* or deviance_ic() returns, runs no sampling, builds no histogram and
\* leaves every attribute of the sampler as it was; and a call that
\* repeats the call before it returns the same value.
C15_CriteriaArePure ==
    [][(Completed(ns) /\ last'.op \in CriterionNames) =>
           /\ Returned(last')
           /\ ns' = ns
           /\ hist_evals' = hist_evals
           /\ (last.op = last'.op /\ last.arg = last'.arg) =>
                  last'.outcome = last.outcome]_vars

C15_Witness ==
    /\ Completed(ns)
    /\ last.op = "deviance_ic"
    /\ Returned(last)
    /\ ns._post_eval

\* C16: the value akaike_ic() returns is 2k - 2*L_max, k being the number
\* of sampled parameters and L_max the largest of the log_likelihood
\* values of the final live samples.
C16_AkaikeFromMaxLogLikelihood ==
    (last.op = "akaike_ic" /\ Returned(last)) =>
        LET info == ns._last_live_sample_info.v
            k == Len(ns.sampled_parameters)
        IN  \E i \in DOMAIN info :
                /\ \A j \in DOMAIN info :
                       info[j].log_likelihood <= info[i].log_likelihood
                /\ last.outcome.value.v = 2 * k - 2 * info[i].log_likelihood

C16_Witness ==
    /\ last.op = "akaike_ic"
    /\ Returned(last)
    /\ Len(ns.sampled_parameters) = 2
    /\ ns._last_live_sample_info.v[1].log_likelihood
           > ns._last_live_sample_info.v[2].log_likelihood
    /\ ns._last_live_sample_info.v[1].level_assignment
           < ns._last_live_sample_info.v[2].level_assignment

\* The table an akaike_ic() or bayesian_ic() call of the selector
\* returned.
ReturnedCriterionTable ==
    /\ last.op \in {"akaike_ic", "bayesian_ic"}
    /\ Returned(last)

\* C17: the table the selector's akaike_ic() or bayesian_ic() returns has
\* exactly one row for each model, labelled model_i for the i-th sampler
\* and holding the criterion of that sampler (2k - 2*L_max, or
\* log(n_data)*k - 2*L_max), and its rows are in non-decreasing order of
\* the criterion.
C17_CriterionTableAscending ==
    ReturnedCriterionTable =>
        LET table == last.outcome.value.v
            penalty == IF last.op = "akaike_ic" THEN 2
                       ELSE Log(last.arg.v)
        IN  /\ Len(table) = model_files
            /\ \A p \in 1..model_files :
                   \E r \in 1..Len(table) :
                       /\ table[r].model = ModelName(p - 1)
                       /\ table[r].value =
                              penalty * Len(nested_samplers.v[p]
                                                .sampled_parameters)
                                  - 2 * MaxLogLikelihood(nested_samplers.v[p])
            /\ \A r \in 1..(Len(table) - 1) :
                   table[r].value <= table[r + 1].value

C17_Witness ==
    /\ ReturnedCriterionTable
    /\ last.op = "bayesian_ic"
    /\ model_files >= 2
    /\ last.outcome.value.v[1].model = ModelName(1)
    /\ last.outcome.value.v[1].value < last.outcome.value.v[2].value

\* C18: whenever posteriors() builds its histograms from n posterior
\* samples, the number of bins is 2*cbrt(n) rounded down, which is the
\* integer part of cbrt(8n), it is at least 1, and the weights and the bin
\* centers of each parameter have that many entries.
C18_BinCountIsFloorOfTwiceCubeRoot ==
    [][(last'.op = "posteriors" /\ hist_evals' = hist_evals + 1) =>
           LET bins == ICbrt(8 * Len(ns._samples.v))
               items == ns'._posteriors.v.items
           IN  /\ bins >= 1
               /\ \A ii \in DOMAIN items :
                      /\ Len(items[ii].hist.marginal) = bins
                      /\ Len(items[ii].hist.center) = bins]_vars

\* C19: within run_nested_sampling() at most one sampler's run() executes
\* at a time, the run() calls are made in index order, each after every
\* earlier one has returned, and no row of the table is built (no
\* log_evidence or log_evidence_error is read) before the run() of every
\* sampler has returned.
C19_SequentialThenAggregate ==
    /\ Cardinality(running) <= 1
    /\ started = [k \in 1..Len(started) |-> k]
    /\ \A p \in running : run_done = 1..(p - 1)
    /\ (pc = "frame_loop" \/ frame_rows # <<>>) =>
           run_done = 1..model_files

C19_Witness ==
    /\ pc = "frame_loop"
    /\ model_files >= 2
    /\ started = <<1, 2>>
    /\ Len(frame_rows) = 1

\* C20: a run_nested_sampling() call made before gen_nested_samplers()
\* runs no sampler, warns, returns no table and leaves selection and
\* nested_samplers as they were, both None; a run_nested_sampling() call
\* made once gen_nested_samplers() has been called, when it returns, returns
\* the stored table with one row for each model.
C20_UnreadyCallWarnsAndChangesNothing ==
    [][/\ (nested_samplers = None /\ last'.op = "run_nested_sampling") =>
              /\ last'.warned
              /\ last'.ran = {}
              /\ last'.outcome = Return(None)
              /\ selection = None
              /\ selection' = None
              /\ nested_samplers' = None
       /\ (/\ nested_samplers # None
           /\ last'.op = "run_nested_sampling"
           /\ Returned(last')) =>
              /\ ~last'.warned
              /\ last'.outcome.value # None
              /\ Len(last'.outcome.value.v) = model_files
              /\ selection' = Val(SortValues(Frame(nested_samplers'.v)))]_vars

C20_Witness ==
    /\ last.op = "run_nested_sampling"
    /\ last.warned
    /\ last.ran = {}
    /\ nested_samplers = None
    /\ selection = None

===========================================================================
